---- MODULE Spec2Model ----
(***************************************************************************)
(* The /api/chat route of the "mini" chat application, in its three        *)
(* revisions: the provider route (OpenAI / Gemini), the mock route that    *)
(* calls crypto.randomUUID directly, and the mock route that uses the      *)
(* generateId helper.  One deployment serves one revision.  A request is   *)
(* followed from its arrival through validation, the outbound provider     *)
(* call (if any) and the response.                                         *)
(***************************************************************************)
EXTENDS Integers, Sequences, FiniteSets, TLC

VARIABLES route, env, hasRandomUUID, now, uuidNext, req, issued, prevMock, served,
          home, browserHasRandomUUID, fetches, other, overlap

vars == <<route, env, hasRandomUUID, now, uuidNext, req, issued, prevMock, served,
          home, browserHasRandomUUID, fetches, other, overlap>>

\* a second invocation of POST in the same runtime, and whether it has taken
\* a step while the first one was in progress
pairVars == <<other, overlap>>

\* the state of the page: the Home component, the browser and its fetches
clientVars == <<home, browserHasRandomUUID, fetches>>

(* ------------------------------ bounds --------------------------------- *)

MaxMsgs == 2        \* longest `messages` array of a request body
MaxPromptLen == 4   \* longest `prompt` string of a request body
MaxServed == 2      \* requests handled one after the other in a run
MaxClock == 1       \* Date.now() moves through 0..MaxClock
MaxRand == 1        \* Math.random() yields one of 0..MaxRand
MaxInputLen == 1    \* longest text typed into the input box
MaxSubmits == 2     \* requests one page sends in a run

(* ------------------------------ strings -------------------------------- *)

\* A string is a sequence of characters; " " stands for any whitespace.
Chars == {"a", " "}

IsSpace(c) == c = " "

RECURSIVE SeqsUpTo(_, _)
SeqsUpTo(S, n) ==
    IF n = 0 THEN {<<>>}
    ELSE LET shorter == SeqsUpTo(S, n - 1)
         IN  shorter \cup {Append(s, x) : s \in shorter, x \in S}

RECURSIVE trimStart(_)
trimStart(s) ==
    IF s # <<>> /\ IsSpace(Head(s)) THEN trimStart(Tail(s)) ELSE s

RECURSIVE trimEnd(_)
trimEnd(s) ==
    IF s # <<>> /\ IsSpace(s[Len(s)]) THEN trimEnd(SubSeq(s, 1, Len(s) - 1)) ELSE s

\* String.prototype.trim
trim(s) == trimEnd(trimStart(s))

\* String.prototype.split(/\s+/): the pieces between maximal whitespace runs,
\* empty pieces at the ends included.
RECURSIVE splitFrom(_, _, _)
splitFrom(s, i, tok) ==
    IF i > Len(s) THEN <<tok>>
    ELSE IF IsSpace(s[i])
         THEN IF i > 1 /\ IsSpace(s[i - 1])
              THEN splitFrom(s, i + 1, tok)
              ELSE <<tok>> \o splitFrom(s, i + 1, <<>>)
         ELSE splitFrom(s, i + 1, Append(tok, s[i]))

split(s) == splitFrom(s, 1, <<>>)

\* Array.prototype.filter(Boolean) on an array of strings
filterBoolean(toks) == SelectSeq(toks, LAMBDA t : t # <<>>)

(* --------------------------- request bodies ---------------------------- *)

Routes == {"provider", "mockRandomUUID", "mockGenerateId"}

\* An entry of `messages`: the JSON value null, or an object whose role is
\* one of the three roles or is missing.
Entries == {"null", "user", "assistant", "system", "norole"}

MessagesValues ==
    {[tag |-> "absent", items |-> <<>>], [tag |-> "notArray", items |-> <<>>]}
    \cup {[tag |-> "array", items |-> m] : m \in SeqsUpTo(Entries, MaxMsgs)}

MockMessagesValues ==
    {[tag |-> "absent", items |-> <<>>],
     [tag |-> "array", items |-> <<>>],
     [tag |-> "array", items |-> <<"user">>]}

PromptValues ==
    {[tag |-> "absent", chars |-> <<>>], [tag |-> "notString", chars |-> <<>>]}
    \cup {[tag |-> "string", chars |-> p] : p \in SeqsUpTo(Chars, MaxPromptLen)}

NoPrompt == [tag |-> "absent", chars |-> <<>>]
NoMessages == [tag |-> "absent", items |-> <<>>]

\* What req.json() can meet: text that is not JSON, the JSON value null, or a
\* value whose fields can be read (an object; a number, string or array
\* behaves like an object without the fields).
NonObjectBodies ==
    {[kind |-> k, provider |-> "absent", messages |-> NoMessages, prompt |-> NoPrompt]
        : k \in {"unparseable", "null"}}

ProviderBodies ==
    NonObjectBodies \cup
    {[kind |-> "object", provider |-> p, messages |-> m, prompt |-> NoPrompt]
        : p \in {"absent", "openai", "gemini", "other"}, m \in MessagesValues}

MockBodies ==
    NonObjectBodies \cup
    {[kind |-> "object", provider |-> "absent", messages |-> m, prompt |-> p]
        : m \in MockMessagesValues, p \in PromptValues}

Bodies(r) == IF r = "provider" THEN ProviderBodies ELSE MockBodies

NoBody == [kind |-> "none", provider |-> "absent", messages |-> NoMessages, prompt |-> NoPrompt]

(* ----------------------------- responses ------------------------------- *)

\* NextResponse.json({error}, {status}) and NextResponse.json({message}, {status: 200});
\* a field that is not in the JSON is the empty sequence.
ErrorResponse(status, text) == [status |-> status, error |-> <<text>>, message |-> <<>>]

\* the variant that answers with the role of the message it replies to
SuccessResponse_userRole(id, content) ==
    [status |-> 200, error |-> <<>>,
     message |-> <<[id |-> id, role |-> "user", content |-> content]>>]

SuccessResponse(id, content) ==
    [status |-> 200, error |-> <<>>,
     message |-> <<[id |-> id, role |-> "assistant", content |-> content]>>]

NoResponse == [status |-> 0, error |-> <<>>, message |-> <<>>]

\* the variant that surfaces the exception text to the caller
CatchResponse_leaksDetail(err) == ErrorResponse(500, err)

\* the blanket catch block of POST; err is the exception it caught
CatchResponse(err) == ErrorResponse(500, "Internal server error")

(* --------------------------- id generation ----------------------------- *)

\* generateId(): crypto.randomUUID() when the runtime has it (a fresh value
\* at every call, numbered by uuidNext), otherwise the hexadecimal time joined
\* to the hexadecimal digits of Math.random().
generateId(hasUUID, next, time, rand) ==
    IF hasUUID
    THEN [kind |-> "uuid", timePart |-> 0, randomPart |-> next]
    ELSE [kind |-> "fallback", timePart |-> time, randomPart |-> rand]

(* ------------------------- provider route: POST ------------------------ *)

\* process.env.OPENAI_API_KEY / GOOGLE_API_KEY: not set, set to "", or a key
KeyValues == {"undefined", "", "sk"}

\* the variant that tests apiKey === undefined, so that "" builds a client
getOpenAIClient_emptyKeyAccepted(e) ==
    IF e.OPENAI_API_KEY = "undefined" THEN "null" ELSE "client"

\* getOpenAIClient(): null when !apiKey
getOpenAIClient(e) ==
    IF e.OPENAI_API_KEY \in {"undefined", ""} THEN "null" ELSE "client"

\* the variant that tests apiKey === undefined, so that "" builds a client
getGeminiClient_emptyKeyAccepted(e) ==
    IF e.GOOGLE_API_KEY = "undefined" THEN "null" ELSE "client"

\* getGeminiClient(): null when !apiKey
getGeminiClient(e) ==
    IF e.GOOGLE_API_KEY \in {"undefined", ""} THEN "null" ELSE "client"

\* [...messages].reverse().find((m) => m.role === 'user'), walking from the
\* last entry: reading .role of a null entry throws a TypeError.
RECURSIVE findLatestUser(_, _)
findLatestUser(items, i) ==
    IF i = 0 THEN "undefined"
    ELSE IF items[i] = "null" THEN "throws"
    ELSE IF items[i] = "user" THEN "found"
    ELSE findLatestUser(items, i - 1)

\* the system prompt followed by messages.map(...): every role but 'user'
\* becomes 'assistant'
openaiMessages(items) ==
    <<"system">> \o [i \in 1..Len(items) |-> IF items[i] = "user" THEN "user" ELSE "assistant"]

\* m.role of a null entry throws
openaiMessagesThrows(items) == \E i \in 1..Len(items) : items[i] = "null"

toUpperCase(role) ==
    CASE role = "user" -> "USER"
      [] role = "assistant" -> "ASSISTANT"
      [] role = "system" -> "SYSTEM"
      [] OTHER -> role

\* the system prompt followed by one `${m.role.toUpperCase()}: ...` part per message
textParts(items) ==
    <<"systemPrompt">> \o [i \in 1..Len(items) |-> toUpperCase(items[i])]

\* m.role.toUpperCase() throws on a null entry and on an entry without role
textPartsThrows(items) == \E i \in 1..Len(items) : items[i] \in {"null", "norole"}

Responded(resp) ==
    [pc |-> "done", response |-> resp, calls |-> 0, payload |-> <<>>]

\* the variant that issues the outbound call a second time
Calling_twice(payload) ==
    [pc |-> "calling", response |-> NoResponse, calls |-> 2, payload |-> payload]

Calling(payload) ==
    [pc |-> "calling", response |-> NoResponse, calls |-> 1, payload |-> payload]

\* POST of the provider route from the resolution of req.json() to its first
\* return or to the await of the outbound call.
providerPOST(body, e) ==
    IF body.kind = "unparseable" THEN Responded(CatchResponse("SyntaxError"))
    ELSE IF body.kind = "null" THEN Responded(CatchResponse("TypeError"))
    ELSE IF body.provider \notin {"openai", "gemini"}
    THEN Responded(ErrorResponse(400, "Invalid provider, must be \"openai\" or \"gemini\""))
    ELSE IF body.messages.tag # "array" \/ Len(body.messages.items) = 0
    THEN Responded(ErrorResponse(400, "Messages array is required and cannot be empty"))
    ELSE LET items == body.messages.items
             latestUser == findLatestUser(items, Len(items))
         IN  IF latestUser = "throws" THEN Responded(CatchResponse("TypeError"))
             ELSE IF latestUser = "undefined"
             THEN Responded(ErrorResponse(400, "At least one user message is required"))
             ELSE IF body.provider = "openai"
             THEN IF getOpenAIClient(e) = "null"
                  THEN Responded(ErrorResponse(500, "OPENAI_API_KEY is not configured on the server"))
                  ELSE IF openaiMessagesThrows(items)
                  THEN Responded(CatchResponse("TypeError"))
                  ELSE Calling(openaiMessages(items))
             ELSE IF getGeminiClient(e) = "null"
                  THEN Responded(ErrorResponse(500, "GOOGLE_API_KEY is not configured on the server"))
                  ELSE IF textPartsThrows(items)
                  THEN Responded(CatchResponse("TypeError"))
                  ELSE Calling(textParts(items))

\* How the outbound call ends: it throws (text is the failure detail), or it
\* returns no completion, a completion whose content is null, or a text.
Details == {"timeout", "401"}

OpenAIOutcomes ==
    {[kind |-> "throws", text |-> d] : d \in Details}
    \cup {[kind |-> "noChoice", text |-> ""], [kind |-> "nullContent", text |-> ""]}
    \cup {[kind |-> "text", text |-> t] : t \in {"", "Hi"}}

GeminiOutcomes ==
    {[kind |-> "throws", text |-> d] : d \in Details}
    \cup {[kind |-> "text", text |-> t] : t \in {"", "Hi"}}

Outcomes(provider) == IF provider = "openai" THEN OpenAIOutcomes ELSE GeminiOutcomes

\* completion.choices[0]?.message?.content ?? fallback, and
\* result.response.text() ?? fallback: ?? replaces null and undefined only
providerContent(outcome) ==
    IF outcome.kind \in {"noChoice", "nullContent"}
    THEN "I could not generate a response."
    ELSE outcome.text

\* the variant that keeps the completion in a module-level variable: an
\* invocation that returns after another one has returned answers with the
\* completion of that one
providerResume_sharedCompletion(outcome, id) ==
    LET shared == IF req.pc = "done" /\ req.outcome.kind # "none" THEN req.outcome ELSE outcome
    IN  IF shared.kind = "throws"
        THEN CatchResponse(shared.text)
        ELSE SuccessResponse(id, providerContent(shared))

\* POST of the provider route from the end of the outbound call to its return
providerResume(outcome, id) ==
    IF outcome.kind = "throws"
    THEN CatchResponse(outcome.text)
    ELSE SuccessResponse(id, providerContent(outcome))

(* --------------------------- mock route: POST -------------------------- *)

\* the template literal of the reply: the prompt and the two counts it embeds
wordCount(prompt) == Len(filterBoolean(split(prompt)))

\* the variant that counts the non-whitespace characters only
charCount_noSpaces(prompt) == Len(SelectSeq(prompt, LAMBDA c : ~IsSpace(c)))

charCount(prompt) == Len(prompt)

\* the variant whose word count also counts the messages of the conversation
replyContent_countsMessages(body) ==
    LET prompt == trim(body.prompt.chars)
    IN  [said |-> prompt,
         wordCount |-> wordCount(prompt) + Len(body.messages.items),
         charCount |-> charCount(prompt)]

replyContent(body) ==
    LET prompt == trim(body.prompt.chars)
    IN  [said |-> prompt, wordCount |-> wordCount(prompt), charCount |-> charCount(prompt)]

\* typeof body.prompt !== 'string' || body.prompt.trim().length === 0
promptMissing(body) ==
    body.prompt.tag # "string" \/ Len(trim(body.prompt.chars)) = 0

\* POST of the mock routes; idThrows: the revision that calls
\* crypto.randomUUID() directly runs where that function does not exist
mockPOST(body, id, idThrows) ==
    IF body.kind = "unparseable" THEN CatchResponse("SyntaxError")
    ELSE IF body.kind = "null" THEN CatchResponse("TypeError")
    ELSE IF promptMissing(body) THEN ErrorResponse(400, "Prompt is required")
    ELSE IF idThrows THEN CatchResponse("TypeError")
    ELSE SuccessResponse(id, replyContent(body))

(* ------------------------------ the page ------------------------------- *)

\* useState initial values of Home; error null is the empty sequence
InitialHome ==
    [messages |-> <<>>, input |-> <<>>, isLoading |-> FALSE, error |-> <<>>, provider |-> "openai"]

\* fetches the page has sent, fetches not yet settled, and the last thing
\* that happened on the page
NoFetches == [sent |-> 0, pending |-> 0, last |-> "none"]

\* what can be typed into the input box
Inputs == SeqsUpTo(Chars, MaxInputLen)

\* the entry that setMessages appends when data.message is undefined
UndefinedEntry == [id |-> [kind |-> "none", timePart |-> 0, randomPart |-> 0],
                   role |-> "undefined", content |-> <<>>]

\* JSON.stringify of the message list, as the route reads it: the role of
\* every entry; undefined becomes null
jsonRoles(msgs) ==
    [i \in 1..Len(msgs) |-> IF msgs[i].role = "undefined" THEN "null" ELSE msgs[i].role]

\* the variant that sends the list as it was before the submit
providerRequestBody_stale(h, userMessage) ==
    [kind |-> "object", provider |-> h.provider,
     messages |-> [tag |-> "array", items |-> jsonRoles(h.messages)],
     prompt |-> NoPrompt]

\* part_003: body: JSON.stringify({ provider, messages: [...messages, userMessage] })
providerRequestBody(h, userMessage) ==
    [kind |-> "object", provider |-> h.provider,
     messages |-> [tag |-> "array", items |-> jsonRoles(Append(h.messages, userMessage))],
     prompt |-> NoPrompt]

\* part_004: body: JSON.stringify({ messages, prompt: trimmed })
mockRequestBody(h, userMessage) ==
    [kind |-> "object", provider |-> "absent",
     messages |-> [tag |-> "array", items |-> jsonRoles(h.messages)],
     prompt |-> [tag |-> "string", chars |-> userMessage.content]]

\* the variant that tests the input only
submitRejected_ignoresLoading(input, isLoading) == trim(input) = <<>>

\* if (!trimmed || isLoading) return
submitRejected(input, isLoading) == trim(input) = <<>> \/ isLoading

\* handleSubmit up to the await of fetch.  idThrows: the page that calls
\* crypto.randomUUID() directly runs in a browser without it, and the handler
\* ends there with error cleared.
handleSubmit(h, id, idThrows) ==
    LET cleared == [h EXCEPT !.error = <<>>]
        userMessage == [id |-> id, role |-> "user", content |-> trim(h.input)]
    IN  IF submitRejected(h.input, h.isLoading) \/ idThrows
        THEN [home |-> cleared, send |-> FALSE, userMessage |-> userMessage]
        ELSE [home |-> [cleared EXCEPT !.messages = Append(@, userMessage),
                                       !.input = <<>>, !.isLoading = TRUE],
              send |-> TRUE, userMessage |-> userMessage]

\* what fetch resolves with: the status, whether the body is a JSON object,
\* and the fields of that object
FromHandler(resp) ==
    [status |-> resp.status, json |-> TRUE, error |-> resp.error, message |-> resp.message]

\* responses that do not come from the route: an empty JSON object with
\* status 200, and pages that are not JSON with status 200 and 502
ForeignResponses ==
    {[status |-> 200, json |-> TRUE, error |-> <<>>, message |-> <<>>],
     [status |-> 200, json |-> FALSE, error |-> <<>>, message |-> <<>>],
     [status |-> 502, json |-> FALSE, error |-> <<>>, message |-> <<>>]}

\* res.ok
ok(res) == res.status \in 200..299

\* `Request failed with status ${res.status}`
requestFailedWithStatus(status) ==
    CASE status = 400 -> "Request failed with status 400"
      [] status = 500 -> "Request failed with status 500"
      [] status = 502 -> "Request failed with status 502"
      [] OTHER -> "Request failed with status"

\* catch: setError(err.message); finally: setIsLoading(false)
failed(h, text) == [h EXCEPT !.error = <<text>>, !.isLoading = FALSE]

\* setMessages((prev) => [...prev, data.message]); finally: setIsLoading(false)
appended(h, entry) == [h EXCEPT !.messages = Append(@, entry), !.isLoading = FALSE]

\* part_003: handleSubmit from the resolution of fetch to its end
providerPageOnResponse(h, res) ==
    IF ~ok(res)
    THEN failed(h, IF res.json /\ res.error # <<>> THEN res.error[1]
                   ELSE requestFailedWithStatus(res.status))
    ELSE IF ~res.json \/ res.message = <<>>
    THEN failed(h, "No message returned from the LLM API")
    ELSE appended(h, res.message[1])

\* part_004: handleSubmit from the resolution of fetch to its end
mockPageOnResponse(h, res) ==
    IF ~ok(res)
    THEN failed(h, IF ~res.json THEN requestFailedWithStatus(res.status)
                   ELSE IF res.error # <<>> /\ res.error[1] # "" THEN res.error[1]
                   ELSE "Request failed")
    ELSE IF ~res.json THEN failed(h, "Unexpected token")
    ELSE appended(h, IF res.message = <<>> THEN UndefinedEntry ELSE res.message[1])

onResponse(r, h, res) ==
    IF r = "provider" THEN providerPageOnResponse(h, res) ELSE mockPageOnResponse(h, res)

\* fetch rejects: setError(err.message); finally: setIsLoading(false)
onFetchError(h) == failed(h, "Failed to fetch")

(* ---------------------------- state machine ---------------------------- *)

IdleReq ==
    [pc |-> "idle", body |-> NoBody, outcome |-> [kind |-> "none", text |-> ""],
     calls |-> 0, payload |-> <<>>, response |-> NoResponse]

\* One deployment: a revision of the route, the two credentials of the
\* environment (read by the provider route only) and a runtime with or
\* without crypto.randomUUID.
Init ==
    /\ route \in Routes
    /\ env \in [OPENAI_API_KEY : KeyValues, GOOGLE_API_KEY : KeyValues]
    /\ route # "provider" => env = [OPENAI_API_KEY |-> "undefined", GOOGLE_API_KEY |-> "undefined"]
    /\ hasRandomUUID \in BOOLEAN
    /\ now = 0
    /\ uuidNext = 1
    /\ req = IdleReq
    /\ issued = <<>>
    /\ prevMock = <<>>
    /\ served = 0
    /\ home = InitialHome
    /\ browserHasRandomUUID = TRUE
    /\ fetches = NoFetches
    /\ other = IdleReq
    /\ overlap = FALSE

\* a request with body b reaches POST, which awaits req.json()
Arrive(b) ==
    /\ req.pc = "idle"
    /\ served < MaxServed
    /\ b \in Bodies(route)
    /\ req' = [IdleReq EXCEPT !.pc = "parsing", !.body = b]
    /\ UNCHANGED <<pairVars, clientVars, route, env, hasRandomUUID, now, uuidNext, issued, prevMock, served>>

\* provider route: validation, credential check and the start of the outbound call
ProviderPOST ==
    /\ route = "provider"
    /\ req.pc = "parsing"
    /\ LET step == providerPOST(req.body, env)
       IN  req' = [req EXCEPT !.pc = step.pc, !.response = step.response,
                              !.calls = step.calls, !.payload = step.payload]
    /\ UNCHANGED <<pairVars, clientVars, route, env, hasRandomUUID, now, uuidNext, issued, prevMock, served>>

\* provider route: the outbound call ends and POST returns
ProviderResume(outcome, rand) ==
    /\ route = "provider"
    /\ req.pc = "calling"
    /\ outcome \in Outcomes(req.body.provider)
    /\ LET id == generateId(hasRandomUUID, uuidNext, now, rand)
           resp == providerResume(outcome, id)
       IN  /\ req' = [req EXCEPT !.pc = "done", !.outcome = outcome, !.response = resp]
           /\ issued' = IF resp.message # <<>> THEN Append(issued, id) ELSE issued
           /\ uuidNext' = IF resp.message # <<>> /\ hasRandomUUID THEN uuidNext + 1 ELSE uuidNext
    /\ UNCHANGED <<pairVars, clientVars, route, env, hasRandomUUID, now, prevMock, served>>

\* mock routes: the whole of POST after req.json()
MockPOST(rand) ==
    /\ route \in {"mockRandomUUID", "mockGenerateId"}
    /\ req.pc = "parsing"
    /\ LET id == generateId(hasRandomUUID, uuidNext, now, rand)
           idThrows == route = "mockRandomUUID" /\ ~hasRandomUUID
           resp == mockPOST(req.body, id, idThrows)
       IN  /\ req' = [req EXCEPT !.pc = "done", !.response = resp]
           /\ issued' = IF resp.message # <<>> THEN Append(issued, id) ELSE issued
           /\ uuidNext' = IF resp.message # <<>> /\ hasRandomUUID THEN uuidNext + 1 ELSE uuidNext
    /\ UNCHANGED <<pairVars, clientVars, route, env, hasRandomUUID, now, prevMock, served>>

\* the response has been sent; on the mock routes the exchange is remembered
\* to compare the next one with it
Finish ==
    /\ req.pc = "done"
    /\ req' = IdleReq
    /\ served' = served + 1
    /\ prevMock' = IF route = "provider" THEN prevMock
                   ELSE <<[body |-> req.body, response |-> req.response]>>
    /\ UNCHANGED <<pairVars, clientVars, route, env, hasRandomUUID, now, uuidNext, issued>>

\* Date.now() advances
Tick ==
    /\ now < MaxClock
    /\ now' = now + 1
    /\ UNCHANGED <<pairVars, clientVars, route, env, hasRandomUUID, uuidNext, req, issued, prevMock, served>>

Next ==
    \/ \E b \in ProviderBodies \cup MockBodies : Arrive(b)
    \/ ProviderPOST
    \/ \E o \in OpenAIOutcomes \cup GeminiOutcomes, rand \in 0..MaxRand : ProviderResume(o, rand)
    \/ \E rand \in 0..MaxRand : MockPOST(rand)
    \/ Finish
    \/ Tick

Spec == Init /\ [][Next]_vars

\* One request from its arrival to its response.  The runtime runs a handler
\* that can run: the body is parsed and POST goes on; the outbound call of the
\* request eventually returns or throws.
FirstRequestNext ==
    \/ \E b \in ProviderBodies \cup MockBodies : served = 0 /\ Arrive(b)
    \/ served = 0 /\ ProviderPOST
    \/ \E o \in OpenAIOutcomes \cup GeminiOutcomes, rand \in 0..MaxRand :
          served = 0 /\ ProviderResume(o, rand)
    \/ \E rand \in 0..MaxRand : served = 0 /\ MockPOST(rand)
    \/ served = 0 /\ Finish
    \/ served = 0 /\ Tick

FairSpec ==
    /\ Init /\ [][FirstRequestNext]_vars
    /\ WF_vars(ProviderPOST)
    /\ WF_vars(\E o \in OpenAIOutcomes \cup GeminiOutcomes, rand \in 0..MaxRand : ProviderResume(o, rand))
    /\ WF_vars(\E rand \in 0..MaxRand : MockPOST(rand))

(* ------------------------ the page and its route ----------------------- *)

\* One deployment and one page opened on it: part_003 on the provider route,
\* part_004 on a mock route; the browser has crypto.randomUUID or not.  The
\* clock stands still: the page reads the time only for the fallback id.
PageInit ==
    /\ route \in Routes
    /\ env \in [OPENAI_API_KEY : KeyValues, GOOGLE_API_KEY : KeyValues]
    /\ route # "provider" => env = [OPENAI_API_KEY |-> "undefined", GOOGLE_API_KEY |-> "undefined"]
    /\ hasRandomUUID \in BOOLEAN
    /\ browserHasRandomUUID \in BOOLEAN
    /\ now = 0
    /\ uuidNext = 1
    /\ req = IdleReq
    /\ issued = <<>>
    /\ prevMock = <<>>
    /\ served = 0
    /\ home = InitialHome
    /\ fetches = NoFetches
    /\ other = IdleReq
    /\ overlap = FALSE

\* onChange of the textarea (and the three suggestion buttons): setInput
SetInput(v) ==
    /\ v \in Inputs
    /\ v # home.input
    /\ home' = [home EXCEPT !.input = v]
    /\ UNCHANGED <<pairVars, browserHasRandomUUID, fetches, route, env, hasRandomUUID, now, uuidNext,
                   req, issued, prevMock, served>>

\* onChange of the provider select of part_003: setProvider
SetProvider(p) ==
    /\ route = "provider"
    /\ p \in {"openai", "gemini"}
    /\ p # home.provider
    /\ home' = [home EXCEPT !.provider = p]
    /\ UNCHANGED <<pairVars, browserHasRandomUUID, fetches, route, env, hasRandomUUID, now, uuidNext,
                   req, issued, prevMock, served>>

\* onSubmit of the form: handleSubmit up to the await of fetch
Submit(rand) ==
    LET idThrows == route # "provider" /\ ~browserHasRandomUUID
        id == generateId(browserHasRandomUUID, uuidNext, now, rand)
        step == handleSubmit(home, id, idThrows)
        body == IF route = "provider"
                THEN providerRequestBody(home, step.userMessage)
                ELSE mockRequestBody(home, step.userMessage)
    IN  /\ step.send => fetches.sent < MaxSubmits
        /\ home' = step.home
        /\ req' = IF step.send THEN [IdleReq EXCEPT !.pc = "parsing", !.body = body] ELSE req
        /\ fetches' = IF step.send
                      THEN [sent |-> fetches.sent + 1, pending |-> fetches.pending + 1,
                            last |-> "accepted"]
                      ELSE [fetches EXCEPT !.last =
                                IF home.isLoading THEN "rejectedLoading"
                                ELSE IF trim(home.input) = <<>> THEN "rejectedBlank"
                                ELSE "threw"]
        /\ uuidNext' = IF step.send /\ browserHasRandomUUID THEN uuidNext + 1 ELSE uuidNext
        /\ UNCHANGED <<pairVars, browserHasRandomUUID, route, env, hasRandomUUID, now, issued, prevMock, served>>

\* how a settled fetch is remembered
Settled(res) ==
    IF ~ok(res) THEN "non200"
    ELSE IF ~res.json \/ res.message = <<>> THEN "noMessage"
    ELSE "message"

\* fetch resolves with res and handleSubmit runs to its end
Resolve(res) ==
    /\ home' = onResponse(route, home, res)
    /\ req' = IdleReq
    /\ fetches' = [fetches EXCEPT !.pending = @ - 1, !.last = Settled(res)]
    /\ UNCHANGED <<pairVars, browserHasRandomUUID, route, env, hasRandomUUID, now, uuidNext,
                   issued, prevMock, served>>

\* the response of the route reaches the page
Receive ==
    /\ fetches.pending > 0
    /\ req.pc = "done"
    /\ Resolve(FromHandler(req.response))

\* something between the page and the route answers in its place
ReceiveForeign(res) ==
    /\ fetches.pending > 0
    /\ req.pc # "idle"
    /\ res \in ForeignResponses
    /\ Resolve(res)

\* fetch rejects (the network fails)
FetchFails ==
    /\ fetches.pending > 0
    /\ req.pc # "idle"
    /\ home' = onFetchError(home)
    /\ req' = IdleReq
    /\ fetches' = [fetches EXCEPT !.pending = @ - 1, !.last = "networkFailure"]
    /\ UNCHANGED <<pairVars, browserHasRandomUUID, route, env, hasRandomUUID, now, uuidNext,
                   issued, prevMock, served>>

PageNext ==
    \/ \E v \in Inputs : SetInput(v)
    \/ \E p \in {"openai", "gemini"} : SetProvider(p)
    \/ \E rand \in 0..MaxRand : Submit(rand)
    \/ ProviderPOST
    \/ \E o \in OpenAIOutcomes \cup GeminiOutcomes, rand \in 0..MaxRand : ProviderResume(o, rand)
    \/ \E rand \in 0..MaxRand : MockPOST(rand)
    \/ Receive
    \/ \E res \in ForeignResponses : ReceiveForeign(res)
    \/ FetchFails

PageSpec == PageInit /\ [][PageNext]_vars

(* ------------------- two invocations in one runtime -------------------- *)

\* The runtime handles a second request while the first one is in progress
\* or after it has returned.  The two invocations of POST share what the
\* module shares: process.env, crypto and the clock; body, provider, messages
\* and the completion are locals of each invocation.
PairBodies ==
    {b \in ProviderBodies : Len(b.messages.items) <= 1}
    \cup {b \in MockBodies : Len(b.prompt.chars) <= 2}

\* the second request reaches POST
OtherArrive(b) ==
    /\ other.pc = "idle"
    /\ b \in Bodies(route)
    /\ other' = [IdleReq EXCEPT !.pc = "parsing", !.body = b]
    /\ overlap' = (overlap \/ req.pc \in {"parsing", "calling"})
    /\ UNCHANGED <<clientVars, route, env, hasRandomUUID, now, uuidNext, req, issued,
                   prevMock, served>>

\* provider route, second invocation: validation, credential check and the
\* start of the outbound call
OtherProviderPOST ==
    /\ route = "provider"
    /\ other.pc = "parsing"
    /\ LET step == providerPOST(other.body, env)
       IN  other' = [other EXCEPT !.pc = step.pc, !.response = step.response,
                                  !.calls = step.calls, !.payload = step.payload]
    /\ overlap' = (overlap \/ req.pc \in {"parsing", "calling"})
    /\ UNCHANGED <<clientVars, route, env, hasRandomUUID, now, uuidNext, req, issued,
                   prevMock, served>>

\* provider route, second invocation: the outbound call ends and POST returns
OtherProviderResume(outcome, rand) ==
    /\ route = "provider"
    /\ other.pc = "calling"
    /\ outcome \in Outcomes(other.body.provider)
    /\ LET id == generateId(hasRandomUUID, uuidNext, now, rand)
           resp == providerResume(outcome, id)
       IN  /\ other' = [other EXCEPT !.pc = "done", !.outcome = outcome, !.response = resp]
           /\ issued' = IF resp.message # <<>> THEN Append(issued, id) ELSE issued
           /\ uuidNext' = IF resp.message # <<>> /\ hasRandomUUID THEN uuidNext + 1 ELSE uuidNext
    /\ overlap' = (overlap \/ req.pc \in {"parsing", "calling"})
    /\ UNCHANGED <<clientVars, route, env, hasRandomUUID, now, req, prevMock, served>>

\* mock routes, second invocation: the whole of POST after req.json()
OtherMockPOST(rand) ==
    /\ route \in {"mockRandomUUID", "mockGenerateId"}
    /\ other.pc = "parsing"
    /\ LET id == generateId(hasRandomUUID, uuidNext, now, rand)
           idThrows == route = "mockRandomUUID" /\ ~hasRandomUUID
           resp == mockPOST(other.body, id, idThrows)
       IN  /\ other' = [other EXCEPT !.pc = "done", !.response = resp]
           /\ issued' = IF resp.message # <<>> THEN Append(issued, id) ELSE issued
           /\ uuidNext' = IF resp.message # <<>> /\ hasRandomUUID THEN uuidNext + 1 ELSE uuidNext
    /\ overlap' = (overlap \/ req.pc \in {"parsing", "calling"})
    /\ UNCHANGED <<clientVars, route, env, hasRandomUUID, now, req, prevMock, served>>

PairNext ==
    \/ \E b \in PairBodies : Arrive(b)
    \/ ProviderPOST
    \/ \E o \in OpenAIOutcomes \cup GeminiOutcomes, rand \in 0..MaxRand : ProviderResume(o, rand)
    \/ \E rand \in 0..MaxRand : MockPOST(rand)
    \/ \E b \in PairBodies : OtherArrive(b)
    \/ OtherProviderPOST
    \/ \E o \in OpenAIOutcomes \cup GeminiOutcomes, rand \in 0..MaxRand :
          OtherProviderResume(o, rand)
    \/ \E rand \in 0..MaxRand : OtherMockPOST(rand)
    \/ Tick

PairSpec == Init /\ [][PairNext]_vars

(* ------------------------ vocabulary of the claims --------------------- *)

Done == req.pc = "done"

OnMock == route \in {"mockRandomUUID", "mockGenerateId"}

HasError(resp) == resp.error # <<>> /\ resp.error[1] # ""

\* the environment holds no usable key for provider p
CredentialAbsent(p) ==
    \/ p = "openai" /\ env.OPENAI_API_KEY \in {"undefined", ""}
    \/ p = "gemini" /\ env.GOOGLE_API_KEY \in {"undefined", ""}

IsNonEmptyArray(m) == m.tag = "array" /\ m.items # <<>>

HasUserEntry(m) == \E i \in 1..Len(m.items) : m.items[i] = "user"

\* the body meets the three validation rules of the provider route and the
\* search for the latest user entry ends on it
PassesValidation(b) ==
    /\ b.kind = "object"
    /\ b.provider \in {"openai", "gemini"}
    /\ IsNonEmptyArray(b.messages)
    /\ \E i \in 1..Len(b.messages.items) :
          /\ b.messages.items[i] = "user"
          /\ \A j \in (i + 1)..Len(b.messages.items) : b.messages.items[j] # "null"

\* whitespace-delimited tokens of a string: the positions where a token starts
Tokens(s) ==
    Cardinality({i \in 1..Len(s) : ~IsSpace(s[i]) /\ (i = 1 \/ IsSpace(s[i - 1]))})

\* whitespace at the two ends of a string that holds a non-whitespace character
LeadingSpaces(s) == (CHOOSE i \in 1..Len(s) : ~IsSpace(s[i]) /\ \A j \in 1..(i - 1) : IsSpace(s[j])) - 1

TrailingSpaces(s) ==
    Len(s) - (CHOOSE i \in 1..Len(s) : ~IsSpace(s[i]) /\ \A j \in (i + 1)..Len(s) : IsSpace(s[j]))

(* ------------------------------- claims -------------------------------- *)

\* C1: a request whose JSON object lacks a required field (provider route: no
\* `provider` or no `messages`; mock routes: no `prompt` or no `messages`) is
\* answered with status 400 and a non-empty error string.
C1_MissingFieldIs400 ==
    (Done /\ req.body.kind = "object"
          /\ IF route = "provider"
             THEN req.body.provider = "absent" \/ req.body.messages.tag = "absent"
             ELSE req.body.prompt.tag = "absent" \/ req.body.messages.tag = "absent")
    => (req.response.status = 400 /\ HasError(req.response))

\* C2 as stated: with the credential of the selected provider absent, every
\* provider request is answered 500, whatever `messages` is.
C2_AbsentCredentialAlways500 ==
    (route = "provider" /\ Done /\ req.body.kind = "object"
        /\ CredentialAbsent(req.body.provider))
    => req.response.status = 500

\* C2 as amended: with the credential of the selected provider absent, every
\* provider request whose `messages` is a non-empty array with a user-role
\* entry is answered 500, whatever else the messages hold.
C2_AbsentCredentialValid500 ==
    (route = "provider" /\ Done /\ req.body.kind = "object"
        /\ CredentialAbsent(req.body.provider)
        /\ IsNonEmptyArray(req.body.messages) /\ HasUserEntry(req.body.messages))
    => req.response.status = 500

C2_Witness ==
    /\ route = "provider" /\ Done /\ req.body.kind = "object"
    /\ req.body.provider = "openai" /\ env.OPENAI_API_KEY = "" /\ env.GOOGLE_API_KEY = "sk"
    /\ req.body.messages.tag = "array" /\ req.body.messages.items = <<"user", "assistant">>
    /\ req.response.status = 500

\* C3: a request whose body is not parseable JSON is answered with status 400
\* and an error object, on the provider route and on the mock routes.
C3_UnparseableIs400 ==
    (Done /\ req.body.kind = "unparseable")
    => (req.response.status = 400 /\ HasError(req.response))

\* C4: on the provider route a JSON object whose provider is present but
\* not "openai" or "gemini", or whose messages is not a non-empty array, or
\* none of whose messages has role "user", is answered with status 400 and an
\* error string, and no outbound call is issued, whatever the credentials are.
C4_InvalidBodyIs400NoCall ==
    (route = "provider" /\ req.pc \in {"calling", "done"} /\ req.body.kind = "object"
        /\ \/ req.body.provider = "other"
           \/ ~IsNonEmptyArray(req.body.messages)
           \/ ~HasUserEntry(req.body.messages))
    => (Done /\ req.response.status = 400 /\ HasError(req.response) /\ req.calls = 0)

\* C5: when the outbound call of a valid, credentialed request throws, the
\* response is status 500 with the fixed error "Internal server error",
\* whatever the failure detail, without `message`, after exactly one call.
C5_CallFailureIsGeneric500 ==
    (route = "provider" /\ Done /\ req.outcome.kind = "throws")
    => /\ req.response = [status |-> 500, error |-> <<"Internal server error">>, message |-> <<>>]
       /\ req.calls = 1

C5_Witness ==
    /\ route = "provider" /\ Done /\ PassesValidation(req.body)
    /\ ~CredentialAbsent(req.body.provider)
    /\ req.outcome = [kind |-> "throws", text |-> "401"]
    /\ req.response.status = 500 /\ req.calls = 1

\* C6: with the credential of the selected provider absent, a request that
\* passes validation is answered 500 with the error that names the missing
\* key (not the generic one), and the outbound call is never attempted.
C6_AbsentCredentialNoCall ==
    (route = "provider" /\ req.pc \in {"calling", "done"} /\ PassesValidation(req.body)
        /\ CredentialAbsent(req.body.provider))
    => /\ Done
       /\ req.calls = 0
       /\ req.response.status = 500
       /\ req.response.message = <<>>
       /\ req.response.error =
            IF req.body.provider = "openai"
            THEN <<"OPENAI_API_KEY is not configured on the server">>
            ELSE <<"GOOGLE_API_KEY is not configured on the server">>

C6_Witness ==
    /\ route = "provider" /\ Done /\ PassesValidation(req.body)
    /\ req.body.provider = "gemini" /\ env.GOOGLE_API_KEY = "" /\ env.OPENAI_API_KEY = "sk"
    /\ req.response.status = 500 /\ req.calls = 0

\* C7 as stated: the reply of an accepted mock request embeds the number of
\* whitespace-delimited tokens of the given prompt and the raw length of the
\* given prompt, leading and trailing whitespace included.
C7_CountsOfGivenPrompt ==
    (OnMock /\ Done /\ req.response.status = 200)
    => LET given == req.body.prompt.chars
           content == req.response.message[1].content
       IN  content.wordCount = Tokens(given) /\ content.charCount = Len(given)

\* C7 as amended: the word count is the number of whitespace-delimited tokens
\* of the given prompt; the character count is the length of the given prompt
\* without its leading and trailing whitespace (inner whitespace counted).
C7_CountsOfTrimmedPrompt ==
    (OnMock /\ Done /\ req.response.status = 200)
    => LET given == req.body.prompt.chars
           content == req.response.message[1].content
       IN  /\ content.wordCount = Tokens(given)
           /\ content.charCount = Len(given) - LeadingSpaces(given) - TrailingSpaces(given)

C7_Witness ==
    /\ OnMock /\ Done /\ req.response.status = 200
    /\ req.body.prompt.chars = <<" ", "a", " ", "a">>
    /\ req.response.message[1].content.wordCount = 2
    /\ req.response.message[1].content.charCount = 3

\* C8: two mock requests with the same prompt get the same status and the
\* same message content, whatever their `messages` and whatever came before.
C8_MockDeterministic ==
    (OnMock /\ Done /\ prevMock # <<>>
        /\ req.body.kind = "object" /\ prevMock[1].body.kind = "object"
        /\ req.body.prompt = prevMock[1].body.prompt)
    => /\ req.response.status = prevMock[1].response.status
       /\ Len(req.response.message) = Len(prevMock[1].response.message)
       /\ req.response.message # <<>> =>
             req.response.message[1].content = prevMock[1].response.message[1].content

C8_Witness ==
    /\ OnMock /\ Done /\ prevMock # <<>>
    /\ req.body.kind = "object" /\ prevMock[1].body.kind = "object"
    /\ req.body.prompt = prevMock[1].body.prompt
    /\ req.body.prompt.tag = "string" /\ req.body.prompt.chars = <<"a", " ", "a">>
    /\ req.body.messages = [tag |-> "array", items |-> <<>>]
    /\ prevMock[1].body.messages = [tag |-> "array", items |-> <<"user">>]
    /\ req.response.status = 200 /\ prevMock[1].response.status = 200

\* C9: every 200 response carries a message whose role is "assistant", and no
\* other response carries a message (mock routes and both providers).
C9_AssistantRoleOnly ==
    Done => /\ req.response.status = 200 =>
                 (req.response.message # <<>> /\ req.response.message[1].role = "assistant")
            /\ req.response.status # 200 => req.response.message = <<>>

C9_Witness ==
    /\ route = "provider" /\ Done /\ req.body.provider = "gemini"
    /\ req.response.status = 200 /\ req.response.message[1].role = "assistant"

\* C10: the ids of the messages returned by successful calls are pairwise
\* distinct, also where crypto.randomUUID does not exist and generateId falls
\* back to the time-plus-random string.
C10_IdsUnique ==
    \A i, j \in 1..Len(issued) : i # j => issued[i] # issued[j]

\* C11: on the provider route, when the provider returns empty content (no
\* completion, a null content, or an empty text) the response is 200 with the
\* content "I could not generate a response."; otherwise the content is the
\* provider's text unchanged.
C11_EmptyContentFallback ==
    (route = "provider" /\ Done /\ req.outcome.kind \in {"noChoice", "nullContent", "text"})
    => /\ req.response.status = 200
       /\ req.response.message # <<>>
       /\ req.response.message[1].content =
            IF req.outcome.kind \in {"noChoice", "nullContent"} \/ req.outcome.text = ""
            THEN "I could not generate a response."
            ELSE req.outcome.text

\* the two exits of POST: 200 with a message and no error, or 400 / 500 with
\* an error and no message
SuccessExit(resp) == resp.status = 200 /\ resp.message # <<>> /\ resp.error = <<>>

ErrorExit(resp) == resp.status \in {400, 500} /\ resp.error # <<>> /\ resp.message = <<>>

\* C12: every request eventually gets a response (its outbound call, if any,
\* returning or throwing); the response is the success exit or an error exit
\* and is not replaced by another; at most one outbound call is issued for a
\* request and none after its response.
C12_OneResponsePerRequest ==
    /\ [](Done => (SuccessExit(req.response) \/ ErrorExit(req.response)))
    /\ [](req.calls <= 1)
    /\ [][req.pc = "done" => (req' = req \/ req' = IdleReq)]_vars
    /\ (req.pc \in {"parsing", "calling"}) ~> Done

C12_Witness ==
    /\ route = "provider" /\ Done /\ req.calls = 1
    /\ req.outcome.kind = "throws" /\ ErrorExit(req.response)

(* ------------------------- claims about the page ----------------------- *)

LastEntry(msgs) == msgs[Len(msgs)]

\* C14: after a request of the page ends with a non-200 response, a network
\* failure or a 200 without `message`, the error state holds an error text,
\* no assistant message has been appended (the list still ends with the user
\* message of the request), the loading flag is false again, and a submit
\* with non-empty input is accepted.
C14_ErrorsAreTerminal ==
    fetches.last \in {"non200", "networkFailure", "noMessage"}
    => /\ home.error # <<>> /\ home.error[1] # ""
       /\ home.messages # <<>> /\ LastEntry(home.messages).role = "user"
       /\ ~home.isLoading
       /\ \A v \in Inputs : trim(v) # <<>> => ~submitRejected(v, home.isLoading)

\* C15: the page never has more than one request in flight; a submit while
\* the loading flag is true, or with empty or whitespace-only input, sends no
\* request and leaves the message list, the input and the loading flag as they
\* are (it only clears the error); the loading flag is true exactly while a
\* request of the page is not yet settled.
C15_OneRequestInFlight ==
    /\ [](fetches.pending <= 1)
    /\ [](home.isLoading <=> fetches.pending = 1)
    /\ [][((\E rand \in 0..MaxRand : Submit(rand))
            /\ (home.isLoading \/ trim(home.input) = <<>>))
          => /\ req' = req
             /\ fetches'.sent = fetches.sent /\ fetches'.pending = fetches.pending
             /\ home' = [home EXCEPT !.error = <<>>]]_vars

C15_Witness ==
    /\ fetches.last = "rejectedLoading"
    /\ home.isLoading /\ fetches.pending = 1 /\ fetches.sent = 1
    /\ trim(home.input) # <<>>
    /\ Len(home.messages) = 1

\* C16: every request the provider page sends passes the validation of the
\* provider route: provider is "openai" or "gemini", messages is non-empty
\* and ends with the user message just submitted; the route never answers
\* such a request with 400.
C16_PageRequestsAreValid ==
    (route = "provider" /\ fetches.pending > 0 /\ req.pc # "idle")
    => /\ req.body.kind = "object"
       /\ req.body.provider \in {"openai", "gemini"}
       /\ IsNonEmptyArray(req.body.messages)
       /\ req.body.messages.items = jsonRoles(home.messages)
       /\ LastEntry(req.body.messages.items) = "user"
       /\ LastEntry(home.messages).role = "user"
       /\ Done => req.response.status # 400

C16_Witness ==
    /\ route = "provider" /\ fetches.sent = 2 /\ fetches.pending = 1 /\ Done
    /\ req.body.provider = "gemini"
    /\ req.body.messages.items = <<"user", "assistant", "user">>
    /\ req.response.status = 200

\* a step of the page: a submit that sends a request, or the settling of a
\* request with or without a message
AcceptedSubmitStep == fetches'.sent = fetches.sent + 1

SettledStep == fetches'.pending = fetches.pending - 1

\* C17: the message list of the page only grows at its end: an accepted
\* submit appends exactly one user message, a successful response appends
\* exactly one assistant message, a failed request (a non-200 response, a
\* network failure, a 200 without message) appends nothing and removes
\* nothing, and no existing message is changed, moved or removed.
C17_AppendOnly ==
    [][LET old == home.messages
           new == home'.messages
       IN  /\ Len(new) >= Len(old)
           /\ SubSeq(new, 1, Len(old)) = old
           /\ IF AcceptedSubmitStep
              THEN Len(new) = Len(old) + 1 /\ LastEntry(new).role = "user"
              ELSE IF SettledStep /\ fetches'.last = "message"
              THEN Len(new) = Len(old) + 1 /\ LastEntry(new).role = "assistant"
              ELSE new = old]_vars

(* ------------------- claims about two invocations --------------------- *)

\* what the claim compares of a response: its status, its error text and,
\* on the mock routes, the content of its message
Answer(resp) ==
    [status |-> resp.status, error |-> resp.error,
     content |-> IF OnMock /\ resp.message # <<>> THEN <<resp.message[1].content>> ELSE <<>>]

\* the response to a request with this body and this provider reply of an
\* invocation that runs alone in the same deployment
Alone(body, outcome) ==
    LET id == generateId(hasRandomUUID, 1, 0, 0)
    IN  IF route = "provider"
        THEN LET step == providerPOST(body, env)
             IN  IF step.pc = "done" THEN step.response ELSE providerResume(outcome, id)
        ELSE mockPOST(body, id, route = "mockRandomUUID" /\ ~hasRandomUUID)

\* C13: the handler is stateless across requests: however two invocations
\* interleave, the status and the error text of the response of each (and on
\* the mock routes its content) are those that an invocation running alone
\* gives for the same body, the same credentials and the same provider reply.
C13_StatelessAcrossRequests ==
    /\ req.pc = "done" => Answer(req.response) = Answer(Alone(req.body, req.outcome))
    /\ other.pc = "done" => Answer(other.response) = Answer(Alone(other.body, other.outcome))

\* the two invocations overlapped, both have returned, and their answers differ
C13_Witness ==
    /\ overlap
    /\ req.pc = "done" /\ other.pc = "done"
    /\ req.calls = 1 /\ other.calls = 1
    /\ req.response.status = 500 /\ other.response.status = 200

====
